---- MODULE Spec2Model ----
(***************************************************************************)
(* Model of kanal's Signal<T> (src/src/signal.rs): a one-shot rendezvous   *)
(* cell shared by one waiter and one signaler.  The waiter issues a        *)
(* sequence of calls (wait, wait_timeout, is_terminated, poll,             *)
(* register_waker, will_wake, async_blocking_wait); the signaler issues    *)
(* exactly one resolution operation (send, send_copy, recv, terminate).    *)
(* Every atomic access of the status word, every access of the notify      *)
(* cell and of the slot, and every park/unpark is one step.  Memory is     *)
(* sequentially consistent in this model.                                  *)
(***************************************************************************)
EXTENDS Integers, Sequences, FiniteSets, TLC

\* ---- status values (signal.rs:13-16) ----
UNLOCKED == 0
TERMINATED == 1
LOCKED == 2
LOCKED_STARVATION == 3

\* ---- iteration constants of the code ----
SpinLimit == 25
YieldLimit == 32
SleepStartShift == 10
SleepCapShift == 18

\* ---- bounds of the model ----
MaxCalls == 2
MaxTime == 2
MaxData == 2
MaxWakers == 2

Data == 1..MaxData
Wakers == {"waker" \o ToString(i) : i \in 1..MaxWakers}
Empty == 0
NoThread == "NoThread"
WaiterThread == "WaiterThread"

VARIABLES
    state,      \* Signal.state : AtomicU8
    ptr,        \* the slot behind Signal.ptr (Empty or a value)
    waker,      \* Signal.waker : [tag, val]
    token,      \* park token of the waiter's thread
    now,        \* the clock read by Instant::now()
    kind,       \* "Recv": receive signal (slot awaits a value); "Send": send signal
    wpc,        \* waiter: position inside the current call, "idle" between calls
    wcall,      \* waiter: the call in progress
    until,      \* waiter: deadline argument of wait_timeout
    tnow,       \* waiter: local `now` of wait_timeout
    count,      \* waiter: iterations done of the spin / yield loop
    sleep_time, \* waiter: local of async_blocking_wait
    entry,      \* history: shared state at entry of the call in progress
    hist,       \* history: completed waiter calls
    synced,     \* waiter: an acquire of its has read a release write of the signaler
    spc,        \* signaler: position
    op,         \* signaler: the resolution operation it runs
    target,     \* signaler: `state` argument of wake
    sent,       \* signaler: payload of send / send_copy
    thread,     \* signaler: its clone of the thread handle / waker
    r,          \* signaler: value read by recv
    woken,      \* history: number of Waker::wake invocations
    unparks,    \* history: number of Thread::unpark invocations
    termWrites, \* history: number of writes of a terminal status
    writeOrd    \* history: memory ordering of the last write of a terminal status

shared == <<state, ptr, waker, token, now, kind>>
wvars == <<wpc, wcall, until, tnow, count, sleep_time, entry, hist, synced>>
svars == <<spc, op, target, sent, thread, r, woken, unparks, termWrites, writeOrd>>
vars == <<shared, wvars, svars>>

\* ---- KanalWaker (signal.rs:21-27) ----
KanalWaker_None == [tag |-> "None", val |-> NoThread]
KanalWaker_Sync(t) == [tag |-> "Sync", val |-> t]
KanalWaker_Async(w) == [tag |-> "Async", val |-> w]

\* ---- constructors (signal.rs:41-47, 64-70, 74-80) ----
new_sync(p) ==
    [state |-> LOCKED, ptr |-> p, waker |-> KanalWaker_Sync(NoThread)]

new_async_ptr(p) ==
    [state |-> LOCKED, ptr |-> p, waker |-> KanalWaker_None]

\* ---- the slot (crate::pointer::KanalPtr) ----
KanalPtr_write(old, d) == d
KanalPtr_copy(old, src) == src
KanalPtr_read(p) == p

\* `v < LOCKED`: the combined pending/terminal test of every load site
IsTerminal(v) == v < LOCKED

\* compare_exchange(current, new): <<new status, Ok?, observed value>>
CompareExchange(cur, expected, new) ==
    IF cur = expected THEN <<new, TRUE, cur>> ELSE <<cur, FALSE, cur>>

NoEntry == [state |-> LOCKED, waker |-> KanalWaker_None]

Init ==
    /\ \E sig \in {new_sync(Empty)} \cup {new_sync(d) : d \in Data}
               \cup {new_async_ptr(Empty)} \cup {new_async_ptr(d) : d \in Data} :
          /\ state = sig.state
          /\ ptr = sig.ptr
          /\ waker = sig.waker
          /\ kind = IF sig.ptr = Empty THEN "Recv" ELSE "Send"
    /\ token \in BOOLEAN   \* an unpark of an earlier use of the thread may be pending
    /\ now = 0
    /\ wpc = "idle" /\ wcall = "none" /\ until = 0 /\ tnow = 0
    /\ count = 0 /\ sleep_time = 0
    /\ entry = NoEntry
    /\ hist = <<>>
    /\ spc = "idle" /\ op = "none" /\ target = LOCKED /\ sent = Empty
    /\ thread = NoThread /\ r = Empty
    /\ woken = 0 /\ unparks = 0 /\ termWrites = 0
    /\ synced = FALSE /\ writeOrd = "none"

\* ---- waiter bookkeeping ----
\* a call begins: remember the shared state it found
Begin(call, pc) ==
    /\ wpc = "idle"
    /\ Len(hist) < MaxCalls
    /\ wcall' = call
    /\ wpc' = pc
    /\ entry' = [state |-> state, waker |-> waker]

\* variant: the fence after the relaxed loads is left out
ObservationOrder_NoFence(call, path) ==
    CASE call \in {"wait", "wait_timeout"} /\ path = "casfail" ->
             [load |-> "Acquire", fence |-> FALSE]
      [] call = "wait_timeout" /\ path = "timeout" ->
             [load |-> "Acquire", fence |-> FALSE]
      [] call = "will_wake" ->
             [load |-> "None", fence |-> FALSE]
      [] OTHER ->
             [load |-> "Relaxed", fence |-> FALSE]

\* memory ordering of the status observation a call returns on: the
\* ordering of the load (or of the failed compare_exchange) and whether
\* fence(Acquire) follows it in the terminal branch
\* (signal.rs:52-54, 85-87, 93-95, 104-106, 121-123, 142, 146-148,
\*  162-164, 171, 174-176, 181, 215)
ObservationOrder(call, path) ==
    CASE call \in {"wait", "wait_timeout"} /\ path = "casfail" ->
             [load |-> "Acquire", fence |-> FALSE]
      [] call = "wait_timeout" /\ path = "timeout" ->
             [load |-> "Acquire", fence |-> FALSE]
      [] call = "is_terminated" ->
             [load |-> "Relaxed", fence |-> FALSE]
      [] call = "will_wake" ->
             [load |-> "None", fence |-> FALSE]
      [] OTHER ->
             [load |-> "Relaxed", fence |-> TRUE]

\* the observation of status v acquires what the writer of v released
Acquires(call, path, v) ==
    LET o == ObservationOrder(call, path) IN
    /\ v < LOCKED
    /\ writeOrd = "Release"
    /\ o.load = "Acquire" \/ o.fence

\* the record kept of a completed call: what it returned, the status it
\* last observed, the path it took, and how far the signaler was
Completed(call, ret, seen, path) ==
    [call |-> call, ret |-> ret, seen |-> seen, path |-> path,
     resolving |-> spc # "idle", resolved |-> spc = "done",
     late |-> now >= until,
     acq |-> Acquires(call, path, seen),
     synced |-> synced \/ Acquires(call, path, seen)]

\* a call returns `ret` having last observed status `seen` on path `path`;
\* its locals die
Return(ret, seen, path) ==
    /\ wpc' = "idle"
    /\ wcall' = "none"
    /\ hist' = Append(hist, Completed(wcall, ret, seen, path))
    /\ synced' = (synced \/ Acquires(wcall, path, seen))
    /\ entry' = NoEntry
    /\ until' = 0 /\ tnow' = 0 /\ count' = 0 /\ sleep_time' = 0

\* a step inside a call that moves to `pc` and leaves the locals alone
Goto(pc) ==
    /\ wpc' = pc
    /\ UNCHANGED <<wcall, until, tnow, count, sleep_time, entry, hist, synced>>

\* a call made of a single step
Single(call, ret, seen, path) ==
    /\ wpc = "idle"
    /\ Len(hist) < MaxCalls
    /\ hist' = Append(hist, Completed(call, ret, seen, path))
    /\ synced' = (synced \/ Acquires(call, path, seen))
    /\ UNCHANGED <<wpc, wcall, until, tnow, count, sleep_time, entry>>

\* ---- Signal::wait (signal.rs:118-158) ----
WaitBegin ==
    /\ waker.tag = "Sync"
    /\ Begin("wait", "w_spin")
    /\ UNCHANGED <<shared, svars, until, tnow, count, sleep_time, hist, synced>>

\* one evaluation of the predicate given to backoff::spin_option_yield_only,
\* which is evaluated at most 25 times (signal.rs:119-131)
WaitSpin ==
    /\ wpc = "w_spin"
    /\ IF IsTerminal(state)
         THEN Return(state = UNLOCKED, state, "spin")
         ELSE /\ count' = count + 1
              /\ wpc' = IF count + 1 >= SpinLimit THEN "w_publish" ELSE "w_spin"
              /\ UNCHANGED <<wcall, until, tnow, sleep_time, entry, hist, synced>>
    /\ UNCHANGED <<shared, svars>>

\* variant: the handle is not published before the escalation
WaitPublish_Skipped ==
    /\ wpc = "w_publish"
    /\ Goto("w_cas")
    /\ UNCHANGED <<shared, svars>>

\* *waker.get() = Some(thread::current()) (signal.rs:135-137).  When an
\* earlier wait_timeout has left the status Locked-Escalated this write
\* races with WakeRead; the read then finds None or the handle, which are
\* the two orders of the steps.
WaitPublish ==
    /\ wpc = "w_publish"
    /\ waker' = KanalWaker_Sync(WaiterThread)
    /\ Goto("w_cas")
    /\ UNCHANGED <<state, ptr, token, now, kind, svars>>

\* variant: the escalation is a swap instead of a compare-and-swap
WaitCas_Swap ==
    /\ wpc = "w_cas"
    /\ state' = LOCKED_STARVATION
    /\ IF state = LOCKED
         THEN Goto("w_park")
         ELSE Return(state = UNLOCKED, state, "casfail")
    /\ UNCHANGED <<ptr, waker, token, now, kind, svars>>

\* compare_exchange(LOCKED, LOCKED_STARVATION) (signal.rs:138-153)
WaitCas ==
    /\ wpc = "w_cas"
    /\ LET c == CompareExchange(state, LOCKED, LOCKED_STARVATION) IN
         /\ state' = c[1]
         /\ IF c[2]
              THEN Goto("w_park")
              ELSE Return(c[3] = UNLOCKED, c[3], "casfail")
    /\ UNCHANGED <<ptr, waker, token, now, kind, svars>>

\* thread::park() returns because an unpark token is present (signal.rs:145)
WaitPark ==
    /\ wpc = "w_park"
    /\ token
    /\ token' = FALSE
    /\ Goto("w_check")
    /\ UNCHANGED <<state, ptr, waker, now, kind, svars>>

\* thread::park() returns spuriously (signal.rs:145)
WaitParkSpurious ==
    /\ wpc = "w_park"
    /\ ~token
    /\ Goto("w_check")
    /\ UNCHANGED <<shared, svars>>

\* variant: every return of park is taken for a wakeup
WaitCheck_NoRecheck ==
    /\ wpc = "w_check"
    /\ Return(state = UNLOCKED, state, "park")
    /\ UNCHANGED <<shared, svars>>

\* the re-check after every resumption (signal.rs:146-150)
WaitCheck ==
    /\ wpc = "w_check"
    /\ IF IsTerminal(state)
         THEN Return(state = UNLOCKED, state, "park")
         ELSE Goto("w_park")
    /\ UNCHANGED <<shared, svars>>

\* ---- Signal::wait_timeout (signal.rs:161-187) ----
WaitTimeoutBegin ==
    /\ waker.tag = "Sync"
    /\ Begin("wait_timeout", "t_load")
    /\ \E u \in 0..MaxTime : until' = u
    /\ UNCHANGED <<shared, svars, tnow, count, sleep_time, hist, synced>>

\* the entry load (signal.rs:162-166)
WaitTimeoutLoad ==
    /\ wpc = "t_load"
    /\ IF IsTerminal(state)
         THEN Return(state = UNLOCKED, state, "fast")
         ELSE Goto("t_cas")
    /\ UNCHANGED <<shared, svars>>

\* compare_exchange(LOCKED, LOCKED_STARVATION) (signal.rs:167-186)
WaitTimeoutCas ==
    /\ wpc = "t_cas"
    /\ LET c == CompareExchange(state, LOCKED, LOCKED_STARVATION) IN
         /\ state' = c[1]
         /\ IF c[2]
              THEN Goto("t_check")
              ELSE Return(c[3] = UNLOCKED, c[3], "casfail")
    /\ UNCHANGED <<ptr, waker, token, now, kind, svars>>

\* the load at the top of the loop (signal.rs:174-178)
WaitTimeoutCheck ==
    /\ wpc = "t_check"
    /\ IF IsTerminal(state)
         THEN Return(state = UNLOCKED, state, "park")
         ELSE Goto("t_now")
    /\ UNCHANGED <<shared, svars>>

\* let now = Instant::now(); if now >= until (signal.rs:179-180)
WaitTimeoutNow ==
    /\ wpc = "t_now"
    /\ tnow' = now
    /\ wpc' = IF now >= until THEN "t_final" ELSE "t_park"
    /\ UNCHANGED <<shared, svars, wcall, until, count, sleep_time, entry, hist, synced>>

\* variant: the final load is compared with the wrong constant
WaitTimeoutFinal_NotTerminated ==
    /\ wpc = "t_final"
    /\ Return(state # TERMINATED, state, "timeout")
    /\ UNCHANGED <<shared, svars>>

\* return self.state.load(Acquire) == UNLOCKED (signal.rs:181)
WaitTimeoutFinal ==
    /\ wpc = "t_final"
    /\ Return(state = UNLOCKED, state, "timeout")
    /\ UNCHANGED <<shared, svars>>

\* park_timeout(until - now) returns on an unpark token (signal.rs:183)
WaitTimeoutPark ==
    /\ wpc = "t_park"
    /\ token
    /\ token' = FALSE
    /\ Goto("t_check")
    /\ UNCHANGED <<state, ptr, waker, now, kind, svars>>

\* park_timeout(until - now) returns because the duration has elapsed
WaitTimeoutParkElapsed ==
    /\ wpc = "t_park"
    /\ ~token
    /\ now >= tnow + (until - tnow)
    /\ Goto("t_check")
    /\ UNCHANGED <<shared, svars>>

\* park_timeout(until - now) returns spuriously
WaitTimeoutParkSpurious ==
    /\ wpc = "t_park"
    /\ ~token
    /\ now < tnow + (until - tnow)
    /\ Goto("t_check")
    /\ UNCHANGED <<shared, svars>>

\* ---- Signal::is_terminated (signal.rs:214-216) ----
IsTerminated ==
    /\ Single("is_terminated", state = TERMINATED, state, "load")
    /\ UNCHANGED <<shared, svars>>

\* ---- Signal::poll (signal.rs:51-59) ----
Poll_Ready(b) == <<"Ready", b>>
Poll_Pending == <<"Pending">>

\* variant: the pending test is off by one
poll_Le(v) ==
    IF v <= LOCKED THEN Poll_Ready(v = UNLOCKED) ELSE Poll_Pending

poll(v) ==
    IF v < LOCKED THEN Poll_Ready(v = UNLOCKED) ELSE Poll_Pending

Poll ==
    /\ Single("poll", poll(state), state, "load")
    /\ UNCHANGED <<shared, svars>>

\* ---- Signal::register_waker (signal.rs:199-201) ----
\* takes &mut self: the caller holds the signal exclusively, so no
\* resolution is in progress
RegisterWaker ==
    /\ wpc = "idle"
    /\ spc = "idle"
    /\ waker.tag \in {"None", "Async"}
    /\ \E w \in Wakers : waker' = KanalWaker_Async(w)
    /\ UNCHANGED <<state, ptr, token, now, kind, wvars, svars>>

\* ---- Signal::will_wake (signal.rs:206-211) ----
WillWake ==
    /\ waker.tag = "Async"
    /\ \E w \in Wakers : Single("will_wake", waker.val = w, state, "cmp")
    /\ UNCHANGED <<shared, svars>>

\* ---- Signal::async_blocking_wait (signal.rs:84-114) ----
BlockingWaitBegin ==
    /\ waker.tag = "Async"
    /\ Begin("async_blocking_wait", "b_fast")
    /\ UNCHANGED <<shared, svars, until, tnow, count, sleep_time, hist, synced>>

\* variant: a pending fast check escalates the status as a thread waiter does
BlockingWaitFast_Escalate ==
    /\ wpc = "b_fast"
    /\ IF IsTerminal(state)
         THEN Return(state = UNLOCKED, state, "fast") /\ UNCHANGED state
         ELSE /\ Goto("b_yield")
              /\ state' = CompareExchange(state, LOCKED, LOCKED_STARVATION)[1]
    /\ UNCHANGED <<ptr, waker, token, now, kind, svars>>

\* the fast check (signal.rs:85-89)
BlockingWaitFast ==
    /\ wpc = "b_fast"
    /\ IF IsTerminal(state)
         THEN Return(state = UNLOCKED, state, "fast")
         ELSE Goto("b_yield")
    /\ UNCHANGED <<shared, svars>>

\* backoff::yield_os() (signal.rs:92)
BlockingWaitYield ==
    /\ wpc = "b_yield"
    /\ Goto("b_ycheck")
    /\ UNCHANGED <<shared, svars>>

\* variant: the re-check of the yield loop takes Locked for terminal
BlockingWaitYieldCheck_Le ==
    /\ wpc = "b_ycheck"
    /\ IF state <= LOCKED
         THEN Return(state = UNLOCKED, state, "yield")
         ELSE /\ count' = count + 1
              /\ IF count + 1 < YieldLimit
                   THEN wpc' = "b_yield" /\ UNCHANGED sleep_time
                   ELSE wpc' = "b_sleep" /\ sleep_time' = 2 ^ SleepStartShift
              /\ UNCHANGED <<wcall, until, tnow, entry, hist, synced>>
    /\ UNCHANGED <<shared, svars>>

\* the re-check of the yield loop; after 32 iterations
\* `let mut sleep_time: u64 = 1 << 10` (signal.rs:93-101)
BlockingWaitYieldCheck ==
    /\ wpc = "b_ycheck"
    /\ IF IsTerminal(state)
         THEN Return(state = UNLOCKED, state, "yield")
         ELSE /\ count' = count + 1
              /\ IF count + 1 < YieldLimit
                   THEN wpc' = "b_yield" /\ UNCHANGED sleep_time
                   ELSE wpc' = "b_sleep" /\ sleep_time' = 2 ^ SleepStartShift
              /\ UNCHANGED <<wcall, until, tnow, entry, hist, synced>>
    /\ UNCHANGED <<shared, svars>>

\* backoff::sleep(Duration::from_nanos(sleep_time)) (signal.rs:103)
BlockingWaitSleep ==
    /\ wpc = "b_sleep"
    /\ Goto("b_scheck")
    /\ UNCHANGED <<shared, svars>>

\* variant: the cap is tested with <= and is overshot once
BlockingWaitSleepCheck_CapLe ==
    /\ wpc = "b_scheck"
    /\ IF IsTerminal(state)
         THEN Return(state = UNLOCKED, state, "sleep")
         ELSE /\ sleep_time' = IF sleep_time <= 2 ^ SleepCapShift
                                 THEN sleep_time * 2
                                 ELSE sleep_time
              /\ wpc' = "b_sleep"
              /\ UNCHANGED <<wcall, until, tnow, count, entry, hist, synced>>
    /\ UNCHANGED <<shared, svars>>

\* the re-check of the sleep loop and the doubling (signal.rs:104-112);
\* a u64 cannot overflow when a value below 2^18 is doubled
BlockingWaitSleepCheck ==
    /\ wpc = "b_scheck"
    /\ IF IsTerminal(state)
         THEN Return(state = UNLOCKED, state, "sleep")
         ELSE /\ sleep_time' = IF sleep_time < 2 ^ SleepCapShift
                                 THEN sleep_time * 2
                                 ELSE sleep_time
              /\ wpc' = "b_sleep"
              /\ UNCHANGED <<wcall, until, tnow, count, entry, hist, synced>>
    /\ UNCHANGED <<shared, svars>>

\* ---- Signal::wake, thread mode (signal.rs:224-238) ----
\* variant: after a failed CAS the terminal value is stored before the
\* cell is read
WakeCas_StoreFirst ==
    /\ spc = "wake"
    /\ waker.tag = "Sync"
    /\ LET c == CompareExchange(state, LOCKED, target) IN
         /\ state' = target
         /\ spc' = IF c[2] THEN "done" ELSE "k_read"
    /\ termWrites' = termWrites + 1
    /\ writeOrd' = "Release"
    /\ UNCHANGED <<ptr, waker, token, now, kind, wvars,
                   op, target, sent, thread, r, woken, unparks>>

\* variant: the notify branch is taken whether or not the CAS succeeded
WakeCas_AlwaysNotify ==
    /\ spc = "wake"
    /\ waker.tag = "Sync"
    /\ LET c == CompareExchange(state, LOCKED, target) IN
         /\ state' = c[1]
         /\ spc' = "k_read"
         /\ termWrites' = IF c[2] THEN termWrites + 1 ELSE termWrites
         /\ writeOrd' = IF c[2] THEN "Release" ELSE writeOrd
    /\ UNCHANGED <<ptr, waker, token, now, kind, wvars,
                   op, target, sent, thread, r, woken, unparks>>

\* compare_exchange(LOCKED, state) (signal.rs:227-230)
WakeCas ==
    /\ spc = "wake"
    /\ waker.tag = "Sync"
    /\ LET c == CompareExchange(state, LOCKED, target) IN
         /\ state' = c[1]
         /\ spc' = IF c[2] THEN "done" ELSE "k_read"
         /\ termWrites' = IF c[2] THEN termWrites + 1 ELSE termWrites
         /\ writeOrd' = IF c[2] THEN "Release" ELSE writeOrd
    /\ UNCHANGED <<ptr, waker, token, now, kind, wvars,
                   op, target, sent, thread, r, woken, unparks>>

\* if let Some(thread) = (*waker.get()).as_ref() { thread.clone() } (signal.rs:232-233)
WakeRead ==
    /\ spc = "k_read"
    /\ IF waker.val # NoThread
         THEN thread' = waker.val /\ spc' = "k_store"
         ELSE thread' = thread /\ spc' = "done"
    /\ UNCHANGED <<shared, wvars, op, target, sent, r, woken, unparks, termWrites, writeOrd>>

\* state.store(state, Release) (signal.rs:234)
WakeStore ==
    /\ spc = "k_store"
    /\ state' = target
    /\ termWrites' = termWrites + 1
    /\ writeOrd' = "Release"
    /\ spc' = "k_unpark"
    /\ UNCHANGED <<ptr, waker, token, now, kind, wvars,
                   op, target, sent, thread, r, woken, unparks>>

\* thread.unpark() (signal.rs:235)
WakeUnpark ==
    /\ spc = "k_unpark"
    /\ token' = TRUE
    /\ unparks' = unparks + 1
    /\ spc' = "done"
    /\ UNCHANGED <<state, ptr, waker, now, kind, wvars,
                   op, target, sent, thread, r, woken, termWrites, writeOrd>>

\* variant: the callback is invoked without the terminal store
WakeClone_NoStore ==
    /\ spc = "wake"
    /\ waker.tag = "Async"
    /\ thread' = waker.val
    /\ spc' = "a_wake"
    /\ UNCHANGED <<shared, wvars, op, target, sent, r, woken, unparks, termWrites, writeOrd>>

\* ---- Signal::wake, task mode (signal.rs:240-244) ----
\* let w = w.clone()
WakeClone ==
    /\ spc = "wake"
    /\ waker.tag = "Async"
    /\ thread' = waker.val
    /\ spc' = "a_store"
    /\ UNCHANGED <<shared, wvars, op, target, sent, r, woken, unparks, termWrites, writeOrd>>

\* state.store(state, Release)
WakeAsyncStore ==
    /\ spc = "a_store"
    /\ state' = target
    /\ termWrites' = termWrites + 1
    /\ writeOrd' = "Release"
    /\ spc' = "a_wake"
    /\ UNCHANGED <<ptr, waker, token, now, kind, wvars,
                   op, target, sent, thread, r, woken, unparks>>

\* w.wake()
WakeAsyncWake ==
    /\ spc = "a_wake"
    /\ woken' = woken + 1
    /\ spc' = "done"
    /\ UNCHANGED <<shared, wvars, op, target, sent, thread, r, unparks, termWrites, writeOrd>>

\* ---- resolution operations (signal.rs:253-281) ----
\* the signal is reachable by the signaler once its notify variant is set
\* (wake's KanalWaker::None arm is unreachable!(), signal.rs:246)
Resolvable ==
    /\ spc = "idle"
    /\ waker.tag # "None"

\* variant: the slot write is left out
Send_NoWrite ==
    /\ Resolvable
    /\ kind = "Recv"
    /\ \E d \in Data : sent' = d
    /\ op' = "send" /\ target' = UNLOCKED /\ spc' = "wake"
    /\ UNCHANGED <<shared, wvars, thread, r, woken, unparks, termWrites, writeOrd>>

\* Signal::send: ptr.write(d), then wake(UNLOCKED)
Send ==
    /\ Resolvable
    /\ kind = "Recv"
    /\ \E d \in Data :
         /\ ptr' = KanalPtr_write(ptr, d)
         /\ sent' = d
    /\ op' = "send" /\ target' = UNLOCKED /\ spc' = "wake"
    /\ UNCHANGED <<state, waker, token, now, kind, wvars,
                   thread, r, woken, unparks, termWrites, writeOrd>>

\* Signal::send_copy: ptr.copy(d), then wake(UNLOCKED)
SendCopy ==
    /\ Resolvable
    /\ kind = "Recv"
    /\ \E d \in Data :
         /\ ptr' = KanalPtr_copy(ptr, d)
         /\ sent' = d
    /\ op' = "send_copy" /\ target' = UNLOCKED /\ spc' = "wake"
    /\ UNCHANGED <<state, waker, token, now, kind, wvars,
                   thread, r, woken, unparks, termWrites, writeOrd>>

\* Signal::recv: r = ptr.read(), then wake(UNLOCKED)
Recv ==
    /\ Resolvable
    /\ kind = "Send"
    /\ r' = KanalPtr_read(ptr)
    /\ op' = "recv" /\ target' = UNLOCKED /\ spc' = "wake"
    /\ UNCHANGED <<shared, wvars, sent, thread, woken, unparks, termWrites, writeOrd>>

\* Signal::terminate: wake(TERMINATED)
Terminate ==
    /\ Resolvable
    /\ op' = "terminate" /\ target' = TERMINATED /\ spc' = "wake"
    /\ UNCHANGED <<shared, wvars, sent, thread, r, woken, unparks, termWrites, writeOrd>>

\* ---- the clock ----
\* Instant::now() is read by wait_timeout only; time is let to advance
\* while such a call is in progress
Tick ==
    /\ wcall = "wait_timeout"
    /\ now < MaxTime
    /\ now' = now + 1
    /\ UNCHANGED <<state, ptr, waker, token, kind, wvars, svars>>

Next ==
    \/ WaitBegin \/ WaitSpin \/ WaitPublish \/ WaitCas
    \/ WaitPark \/ WaitParkSpurious \/ WaitCheck
    \/ WaitTimeoutBegin \/ WaitTimeoutLoad \/ WaitTimeoutCas \/ WaitTimeoutCheck
    \/ WaitTimeoutNow \/ WaitTimeoutFinal
    \/ WaitTimeoutPark \/ WaitTimeoutParkElapsed \/ WaitTimeoutParkSpurious
    \/ IsTerminated \/ Poll \/ RegisterWaker \/ WillWake
    \/ BlockingWaitBegin \/ BlockingWaitFast \/ BlockingWaitYield
    \/ BlockingWaitYieldCheck \/ BlockingWaitSleep \/ BlockingWaitSleepCheck
    \/ WakeClone \/ WakeAsyncStore \/ WakeAsyncWake
    \/ WakeCas \/ WakeRead \/ WakeStore \/ WakeUnpark
    \/ Send \/ SendCopy \/ Recv \/ Terminate
    \/ Tick

Spec == Init /\ [][Next]_vars

\* ---- scheduling assumptions for liveness ----
\* a running thread keeps taking steps: every step of a call in progress
\* other than a spurious return of park, every step of a resolution in
\* progress, and the passing of time
WaiterStep ==
    \/ WaitSpin \/ WaitPublish \/ WaitCas \/ WaitPark \/ WaitCheck
    \/ WaitTimeoutLoad \/ WaitTimeoutCas \/ WaitTimeoutCheck \/ WaitTimeoutNow
    \/ WaitTimeoutFinal \/ WaitTimeoutPark \/ WaitTimeoutParkElapsed
    \/ BlockingWaitFast \/ BlockingWaitYield \/ BlockingWaitYieldCheck
    \/ BlockingWaitSleep \/ BlockingWaitSleepCheck

SignalerStep ==
    \/ WakeCas \/ WakeRead \/ WakeStore \/ WakeUnpark
    \/ WakeClone \/ WakeAsyncStore \/ WakeAsyncWake

FairSpec ==
    Spec /\ WF_vars(WaiterStep) /\ WF_vars(SignalerStep) /\ WF_vars(Tick)

\* ---- thread mode alone: signals made by new_sync ----
InitSync ==
    Init /\ waker.tag = "Sync"

NextSync ==
    \/ WaitBegin \/ WaitSpin \/ WaitPublish \/ WaitCas
    \/ WaitPark \/ WaitParkSpurious \/ WaitCheck
    \/ WaitTimeoutBegin \/ WaitTimeoutLoad \/ WaitTimeoutCas \/ WaitTimeoutCheck
    \/ WaitTimeoutNow \/ WaitTimeoutFinal
    \/ WaitTimeoutPark \/ WaitTimeoutParkElapsed \/ WaitTimeoutParkSpurious
    \/ IsTerminated
    \/ WakeCas \/ WakeRead \/ WakeStore \/ WakeUnpark
    \/ Send \/ SendCopy \/ Recv \/ Terminate
    \/ Tick

SyncWaiterStep ==
    \/ WaitSpin \/ WaitPublish \/ WaitCas \/ WaitPark \/ WaitCheck
    \/ WaitTimeoutLoad \/ WaitTimeoutCas \/ WaitTimeoutCheck \/ WaitTimeoutNow
    \/ WaitTimeoutFinal \/ WaitTimeoutPark \/ WaitTimeoutParkElapsed

SyncSignalerStep ==
    WakeCas \/ WakeRead \/ WakeStore \/ WakeUnpark

FairSyncSpec ==
    /\ InitSync /\ [][NextSync]_vars
    /\ WF_vars(SyncWaiterStep) /\ WF_vars(SyncSignalerStep) /\ WF_vars(Tick)

\* ---- task mode alone: signals made by new_async / new_async_ptr, ----
\* ---- waited on through async_blocking_wait                      ----
\* (poll, will_wake and is_terminated are single loads that change nothing)
InitAsync ==
    Init /\ waker.tag = "None"

NextAsync ==
    \/ RegisterWaker
    \/ BlockingWaitBegin \/ BlockingWaitFast \/ BlockingWaitYield
    \/ BlockingWaitYieldCheck \/ BlockingWaitSleep \/ BlockingWaitSleepCheck
    \/ WakeClone \/ WakeAsyncStore \/ WakeAsyncWake
    \/ Send \/ SendCopy \/ Recv \/ Terminate

AsyncWaiterStep ==
    \/ BlockingWaitFast \/ BlockingWaitYield \/ BlockingWaitYieldCheck
    \/ BlockingWaitSleep \/ BlockingWaitSleepCheck

AsyncSignalerStep ==
    WakeClone \/ WakeAsyncStore \/ WakeAsyncWake

FairAsyncSpec ==
    /\ InitAsync /\ [][NextAsync]_vars
    /\ WF_vars(AsyncWaiterStep) /\ WF_vars(AsyncSignalerStep)

\* ---- helpers of the properties ----
Calls == 1..Len(hist)

\* no wait_timeout call was made on the signal before call i / so far
FreshAt(i) == \A j \in 1..(i - 1) : hist[j].call # "wait_timeout"
FreshNow == \A j \in Calls : hist[j].call # "wait_timeout"

\* C1: no missed wakeup.  On a fresh sync signal, once a resolution
\* operation has been invoked, a wait() in progress eventually returns; in
\* particular a waiter whose escalation succeeded is unparked.
C1_NoMissedWakeup ==
    (wcall = "wait" /\ FreshNow /\ spc # "idle") ~> (wcall # "wait")

\* a fresh wait() escalated, parked, and returned after the signaler's
\* store and unpark
C1_Witness ==
    /\ unparks = 1
    /\ \E i \in Calls : hist[i].call = "wait" /\ hist[i].path = "park" /\ FreshAt(i)
\* C2: a resolution is never lost.  Once the resolution call has returned,
\* the status word equals the terminal value it was asked to write.
C2_ResolutionNeverLost ==
    spc = "done" => state = target

\* ---- Signal::assume_init (signal.rs:219-221) ----
assume_init == KanalPtr_read(ptr)

\* C3: result of wait() on a fresh sync signal.  It never returns on a
\* pending status; it returns true exactly on Unlocked and false exactly
\* on Terminated, whichever path it returns on.
C3_WaitResult ==
    \A i \in Calls :
        (hist[i].call = "wait" /\ FreshAt(i)) =>
            /\ hist[i].seen \in {UNLOCKED, TERMINATED}
            /\ hist[i].ret = TRUE <=> hist[i].seen = UNLOCKED
            /\ hist[i].ret = FALSE <=> hist[i].seen = TERMINATED

\* a fresh wait() that parked, was resumed and returned true
C3_Witness ==
    \E i \in Calls :
        /\ hist[i].call = "wait" /\ FreshAt(i)
        /\ hist[i].path = "park" /\ hist[i].ret = TRUE

\* C4: round trip of the delivered value.  On a receive signal the status
\* is Unlocked only after the slot write, so a wait() that returned true is
\* followed by an assume_init() that yields the value sent.
C4_RoundTrip ==
    /\ (kind = "Recv" /\ state = UNLOCKED) =>
           (sent \in Data /\ assume_init = sent)
    /\ \A i \in Calls :
           (kind = "Recv" /\ hist[i].call = "wait" /\ hist[i].ret = TRUE) =>
               (sent \in Data /\ assume_init = sent)

\* wait() returned true for a send(d) and the slot holds d
C4_Witness ==
    /\ kind = "Recv" /\ op = "send" /\ assume_init = sent
    /\ \E i \in Calls : hist[i].call = "wait" /\ hist[i].ret = TRUE

\* what every completed wait_timeout() call satisfies
TimeoutResultOK ==
    \A i \in Calls :
        hist[i].call = "wait_timeout" =>
            /\ hist[i].ret = TRUE =>
                   (hist[i].seen = UNLOCKED /\ hist[i].resolving)
            /\ ~hist[i].resolving => hist[i].ret = FALSE
            /\ hist[i].path = "timeout" => hist[i].late

\* C5: timeout correctness.  wait_timeout() returns true only on an
\* Unlocked status written by a resolution; with no resolution invoked it
\* returns false; it returns on the deadline path only once the deadline
\* has passed; and it always returns, resolved or not.
C5_TimeoutCorrect ==
    /\ []TimeoutResultOK
    /\ (wcall = "wait_timeout") ~> (wcall # "wait_timeout")

\* a wait_timeout() returned true on a delivery that raced with its
\* escalation: its own compare-and-swap found the status Unlocked
C5_Witness ==
    \E i \in Calls :
        /\ hist[i].call = "wait_timeout" /\ hist[i].path = "casfail"
        /\ hist[i].ret = TRUE /\ hist[i].seen = UNLOCKED

\* the step that completes a call
Completes(call) ==
    /\ Len(hist') = Len(hist) + 1
    /\ hist'[Len(hist')].call = call

\* C6: a timeout does not mutate shared state.  A wait_timeout() that
\* returns on its deadline with no resolution invoked leaves the status
\* word and the notify cell as they were at call entry.
C6_TimeoutFrame ==
    [][(/\ Completes("wait_timeout")
        /\ hist'[Len(hist')].path = "timeout"
        /\ ~hist'[Len(hist')].resolving)
          => (state' = entry.state /\ waker' = entry.waker)]_vars

\* call i is a wait_timeout() that timed out on a pending signal
TimedOutAt(i) ==
    /\ hist[i].call = "wait_timeout"
    /\ hist[i].path = "timeout"
    /\ hist[i].seen \in {LOCKED, LOCKED_STARVATION}

\* C7: a timed-out signal remains usable.  After a wait_timeout() timed
\* out, a later wait() returns only on a terminal status and a later
\* wait_timeout() only on a terminal status or past its deadline; either
\* returns true when the value has been delivered.
C7_UsableAfterTimeout ==
    \A i \in Calls : \A j \in Calls :
        (i < j /\ TimedOutAt(i) /\ hist[j].call \in {"wait", "wait_timeout"}) =>
            /\ \/ hist[j].seen \in {UNLOCKED, TERMINATED}
               \/ hist[j].call = "wait_timeout" /\ hist[j].late
            /\ hist[j].seen = UNLOCKED => hist[j].ret = TRUE

\* C8: status monotonicity.  The status starts at Locked and moves only
\* Locked -> Locked-Escalated -> terminal or Locked -> terminal; a terminal
\* value is written at most once, by the compare-and-swap or by the store,
\* and is never overwritten.
C8_Monotonic ==
    /\ state = LOCKED /\ termWrites = 0
    /\ [][/\ state = LOCKED_STARVATION => state' # LOCKED
          /\ state \in {UNLOCKED, TERMINATED} => state' = state
          /\ state' # state =>
                 \/ state' = LOCKED_STARVATION /\ termWrites' = termWrites
                 \/ state' = target /\ termWrites' = termWrites + 1
          /\ termWrites' <= 1
          /\ termWrites' = 1 <=> state' \in {UNLOCKED, TERMINATED}]_vars

\* the waiter escalated and the signaler's store, not its compare-and-swap,
\* wrote the terminal value
C8_Witness ==
    /\ termWrites = 1 /\ unparks = 1
    /\ state \in {UNLOCKED, TERMINATED}
    /\ waker = KanalWaker_Sync(WaiterThread)

\* C9: termination liveness, its observable outcome.  Once terminate() has
\* returned, every waiter call that returns reports failure: wait(),
\* wait_timeout() and async_blocking_wait() return false, poll() on a
\* task-mode signal returns Ready(false), and is_terminated() returns true.
C9_TerminateObserved ==
    \A i \in Calls :
        (op = "terminate" /\ hist[i].resolved) =>
            /\ hist[i].call \in {"wait", "wait_timeout", "async_blocking_wait"}
                   => hist[i].ret = FALSE
            /\ (hist[i].call = "poll" /\ waker.tag = "Async")
                   => hist[i].ret = Poll_Ready(FALSE)
            /\ hist[i].call = "is_terminated" => hist[i].ret = TRUE

\* C10: poll() is a function of the status alone and has no effect.  It
\* returns Pending exactly on Locked and Locked-Escalated, Ready(true)
\* exactly on Unlocked, Ready(false) exactly on Terminated, and leaves the
\* status, the slot and the notify handle unchanged.
C10_PollPure ==
    [][Completes("poll") =>
          LET res == hist'[Len(hist')].ret IN
          /\ res = Poll_Pending <=> state \in {LOCKED, LOCKED_STARVATION}
          /\ res = Poll_Ready(TRUE) <=> state = UNLOCKED
          /\ res = Poll_Ready(FALSE) <=> state = TERMINATED
          /\ state' = state /\ ptr' = ptr /\ waker' = waker]_vars

\* poll() returned Pending on an escalated signal
C10_Witness ==
    \E i \in Calls :
        /\ hist[i].call = "poll"
        /\ hist[i].ret = Poll_Pending
        /\ hist[i].seen = LOCKED_STARVATION
\* positions of the sleep loop of async_blocking_wait
SleepLoop == {"b_sleep", "b_scheck"}

\* C11: backoff bound of the bridge wait.  The sleep duration starts at
\* 1024 ns, never decreases, doubles after each unsuccessful re-check while
\* below 262144 ns and never exceeds 262144 ns; every re-check of the
\* status is preceded by a yield or a sleep.
C11_BackoffBound ==
    [][/\ wpc' \in SleepLoop =>
              (sleep_time' >= 1024 /\ sleep_time' <= 262144)
       /\ (wpc \notin SleepLoop /\ wpc' \in SleepLoop) => sleep_time' = 1024
       /\ (wpc \in SleepLoop /\ wpc' \in SleepLoop) => sleep_time' >= sleep_time
       /\ (wpc = "b_scheck" /\ wpc' = "b_sleep") =>
              sleep_time' = IF sleep_time < 262144
                              THEN 2 * sleep_time ELSE 262144
       /\ (wpc' = "b_ycheck" /\ wpc # "b_ycheck") => wpc = "b_yield"
       /\ (wpc' = "b_scheck" /\ wpc # "b_scheck") => wpc = "b_sleep"]_vars

\* the sleep loop has reached the cap and is about to re-check
C11_Witness ==
    wpc = "b_scheck" /\ sleep_time = 262144 /\ state = LOCKED
\* the step in which the waiter writes the thread cell / the signaler reads it
CellWrite == wpc = "w_publish" /\ wpc' # "w_publish"
CellRead == spc = "k_read" /\ spc' # "k_read"

\* C12: notify-cell protocol.  The thread cell is written only by the
\* waiting thread and only while the status is exactly Locked; the
\* signaler reads it only after its compare-and-swap from Locked has failed
\* on a Locked-Escalated status.
C12_CellProtocol ==
    [][/\ (waker.tag = "Sync" /\ waker' # waker) => CellWrite
       /\ CellWrite => state = LOCKED
       /\ CellRead => state = LOCKED_STARVATION]_vars
\* the writes of a terminal status so far were release writes
TerminalWritesRelease == writeOrd \in {"none", "Release"}

\* call i returned on a terminal status
SawTerminal(i) == hist[i].seen \in {UNLOCKED, TERMINATED}

\* C13 as stated: every call that observes a terminal status, is_terminated
\* included, acquires the signaler's release write of it.
C13_AllObserversAcquire ==
    /\ TerminalWritesRelease
    /\ \A i \in Calls :
           (/\ hist[i].call \in {"wait", "wait_timeout", "poll",
                                 "async_blocking_wait", "is_terminated"}
            /\ SawTerminal(i)) => hist[i].acq

\* C13 amended: every write of a terminal status is a release write, and
\* every wait, wait_timeout, poll and async_blocking_wait that observes a
\* terminal status acquires it, after which the waiter sees the slot write
\* of the signaler; is_terminated is left out, its load is relaxed and
\* unfenced.
C13_WaitersAcquire ==
    /\ TerminalWritesRelease
    /\ \A i \in Calls :
           (/\ hist[i].call \in {"wait", "wait_timeout", "poll",
                                 "async_blocking_wait"}
            /\ SawTerminal(i)) =>
               /\ hist[i].acq /\ hist[i].synced
               /\ (kind = "Recv" /\ hist[i].seen = UNLOCKED) => assume_init = sent

\* a wait() that parked observed the delivery, a release write, through
\* its fenced load
C13_Witness ==
    \E i \in Calls :
        /\ hist[i].call = "wait" /\ hist[i].path = "park"
        /\ hist[i].seen = UNLOCKED /\ hist[i].acq
        /\ kind = "Recv" /\ writeOrd = "Release"
\* C14: the timeout variant follows the escalation protocol of wait().  In
\* every state whose status is Locked-Escalated the notify cell holds the
\* handle of the waiter's thread.
C14_EscalatedHasHandle ==
    state = LOCKED_STARVATION => waker = KanalWaker_Sync(WaiterThread)
\* the signaler's compare-and-swap from Locked succeeds in this step
FastCas ==
    spc = "wake" /\ waker.tag = "Sync" /\ state = LOCKED /\ spc' # "wake"

\* the resolution is over and was done by the compare-and-swap alone
FastPath ==
    /\ waker.tag = "Sync" /\ spc = "done"
    /\ state = target /\ thread = NoThread

\* C15: signaler fast path.  When the signaler's compare-and-swap from
\* Locked succeeds it is done: it reads no cell and unparks nobody; an
\* unpark happens only after the failed compare-and-swap and the cell
\* read.  A wait() or wait_timeout() then returns the right result from a
\* status check or from its own failed escalation, never from park.
C15_SignalerFastPath ==
    /\ [][/\ (FastCas => (/\ spc' = "done" /\ state' = target
                           /\ thread' = thread /\ unparks' = unparks
                           /\ token' = token))
           /\ (unparks' # unparks =>
                  (spc = "k_unpark" /\ thread = WaiterThread /\ termWrites = 1))]_vars
    /\ [](FastPath =>
             /\ unparks = 0
             /\ \A i \in Calls :
                    (hist[i].call \in {"wait", "wait_timeout"} /\ hist[i].resolved) =>
                        (/\ hist[i].ret = (target = UNLOCKED)
                         /\ hist[i].path \in {"spin", "casfail", "fast"}))
    /\ (FastPath /\ wcall \in {"wait", "wait_timeout"}) ~> (wcall = "none")

\* the waiter had published its handle, lost the race to the signaler's
\* compare-and-swap and returned true from its own failed escalation
C15_Witness ==
    /\ FastPath /\ unparks = 0
    /\ waker = KanalWaker_Sync(WaiterThread)
    /\ \E i \in Calls :
           /\ hist[i].call = "wait" /\ hist[i].path = "casfail"
           /\ hist[i].ret = TRUE
\* the signal was made by new_async / new_async_ptr
TaskMode == waker.tag \in {"None", "Async"}

\* C16: task mode never escalates.  On a task-mode signal no step of a
\* waiter-side call changes the status, the status is never
\* Locked-Escalated, and the only status change is the signaler's store
\* from Locked to its terminal target.
C16_TaskModeNeverEscalates ==
    /\ [](TaskMode => state # LOCKED_STARVATION)
    /\ [][TaskMode =>
             /\ (wvars' # wvars => state' = state)
             /\ (state' # state =>
                    (/\ spc = "a_store" /\ state = LOCKED
                     /\ state' = target /\ IsTerminal(state')))]_vars

\* a bridge wait went through the yield loop into the sleep loop and
\* returned true after the signaler's store and callback
C16_Witness ==
    /\ waker.tag = "Async" /\ state = UNLOCKED /\ woken = 1
    /\ \E i \in Calls :
           /\ hist[i].call = "async_blocking_wait"
           /\ hist[i].path = "sleep" /\ hist[i].ret = TRUE

\* C17: task-mode wake ordering.  The callback of a task-mode signal is
\* invoked at most once, through the signaler's clone, and only after the
\* unconditional terminal store; a finished resolution has invoked it
\* once.  A poll() made after the callback was invoked returns Ready:
\* true for a delivery, false for terminate.
C17_WakeOrdering ==
    /\ [](woken <= 1 /\ ((waker.tag = "Async" /\ spc = "done") => woken = 1))
    /\ [][/\ (woken' # woken =>
                  (/\ woken = 0 /\ woken' = 1
                   /\ termWrites = 1 /\ state = target /\ IsTerminal(state)
                   /\ thread = waker.val /\ thread \in Wakers))
           /\ ((spc = "a_store" /\ spc' # spc) =>
                  (state' = target /\ woken' = woken))
           /\ ((Completes("poll") /\ woken >= 1) =>
                  hist'[Len(hist')].ret = Poll_Ready(op # "terminate"))]_vars

\* a poll() after the callback of a terminate returned Ready(false)
C17_Witness ==
    /\ waker.tag = "Async" /\ woken = 1 /\ op = "terminate"
    /\ \E i \in Calls :
           /\ hist[i].call = "poll" /\ hist[i].resolved
           /\ hist[i].ret = Poll_Ready(FALSE)
\* the three load sites of async_blocking_wait
BridgeCheck == wpc \in {"b_fast", "b_ycheck", "b_scheck"}

\* C18: bridge wait correctness.  async_blocking_wait() returns only on a
\* terminal status, true exactly for Unlocked, on the fast check, within
\* the 32 iterations of the yield loop, or in the sleep loop; a check that
\* finds a terminal status returns at once; and once a resolution has
\* been invoked the call eventually returns.
C18_BridgeWait ==
    /\ [][/\ (Completes("async_blocking_wait") =>
                  (/\ BridgeCheck /\ IsTerminal(state)
                   /\ hist'[Len(hist')].seen = state
                   /\ hist'[Len(hist')].ret = (state = UNLOCKED)
                   /\ hist'[Len(hist')].path =
                         (CASE wpc = "b_fast" -> "fast"
                            [] wpc = "b_ycheck" -> "yield"
                            [] OTHER -> "sleep")))
           /\ ((BridgeCheck /\ IsTerminal(state) /\ wpc' # wpc) =>
                  Completes("async_blocking_wait"))]_vars
    /\ [](/\ wpc \in {"b_yield", "b_ycheck"} => count < YieldLimit
          /\ wpc \in SleepLoop => count = YieldLimit)
    /\ (wcall = "async_blocking_wait" /\ spc # "idle") ~> (wcall = "none")

\* a bridge wait returned false from the yield loop after a terminate
C18_Witness ==
    /\ waker.tag = "Async" /\ op = "terminate" /\ state = TERMINATED
    /\ \E i \in Calls :
           /\ hist[i].call = "async_blocking_wait"
           /\ hist[i].path = "yield" /\ hist[i].ret = FALSE
\* the signaler has made a terminal status visible
Published == termWrites >= 1

\* C19: no access after publication.  After its successful
\* compare-and-swap or its terminal store the signaler takes no step
\* other than the unpark or the callback through its own clone, and
\* touches no field of the signal; the slot is written or read only by
\* send, send_copy and recv, before wake starts and while the status is
\* pending; terminate leaves the slot alone.
C19_NoAccessAfterPublication ==
    /\ [][/\ ((Published /\ svars' # svars) =>
                  (/\ spc \in {"k_unpark", "a_wake"} /\ spc' = "done"
                   /\ thread \in {WaiterThread} \cup Wakers
                   /\ state' = state /\ ptr' = ptr /\ waker' = waker
                   /\ r' = r /\ thread' = thread))
           /\ ((ptr' # ptr \/ r' # r \/ sent' # sent) =>
                  (/\ spc = "idle" /\ ~IsTerminal(state)
                   /\ op' \in {"send", "send_copy", "recv"}))
           /\ (op' = "terminate" =>
                  (ptr' = ptr /\ r' = Empty /\ sent' = Empty))]_vars
    /\ [](IsTerminal(state) =>
             (Published /\ spc \in {"k_unpark", "a_wake", "done"}))

\* a terminate of a parked waiter ended with the unpark through the
\* signaler's clone, the slot untouched
C19_Witness ==
    /\ op = "terminate" /\ spc = "done" /\ state = TERMINATED
    /\ unparks = 1 /\ thread = WaiterThread
    /\ kind = "Send" /\ ptr \in Data /\ r = Empty

\* a sync signal used by at most one wait() call and no wait_timeout()
SingleWait ==
    /\ waker.tag = "Sync"
    /\ wcall # "wait_timeout" /\ FreshNow
    /\ Cardinality({i \in Calls : hist[i].call = "wait"})
         + (IF wcall = "wait" THEN 1 ELSE 0) <= 1

\* C20: race-freedom of the notify cell.  On a fresh sync signal waited on
\* by a single wait(), the signaler reads the cell only after the waiter
\* wrote its handle and then escalated, while the waiter sits in its park
\* loop, and finds the handle; a cell write made after the signal was
\* resolved finds the signaler finished without having read the cell.
C20_CellRaceFree ==
    [][SingleWait =>
         /\ (CellRead =>
                (/\ waker = KanalWaker_Sync(WaiterThread)
                 /\ state = LOCKED_STARVATION
                 /\ wcall = "wait" /\ wpc \in {"w_park", "w_check"}
                 /\ thread' = WaiterThread))
         /\ ((CellWrite /\ Published) =>
                (spc = "done" /\ thread = NoThread /\ spc' = "done"))
         /\ (CellWrite => spc \notin {"k_read", "k_store", "k_unpark"})]_vars

\* the single wait() escalated, the signaler read the handle, stored and
\* unparked, and the wait returned true from its park loop
C20_Witness ==
    /\ SingleWait /\ spc = "done" /\ thread = WaiterThread /\ unparks = 1
    /\ \E i \in Calls :
           /\ hist[i].call = "wait" /\ hist[i].path = "park"
           /\ hist[i].ret = TRUE
====
